---- MODULE Spec2Model ----
(***************************************************************************)
(* Metadata repository of the Drug Approval Analytics project:             *)
(* src/platform/metadata/repository.py.  DataSource (an Artifact) and      *)
(* DataSourceEvent (an Event) map their create/read/update/delete methods  *)
(* to calls on a data-access object (PGDao).  PGDao itself lives in        *)
(* src/platform/database/access.py, which is not part of the sources at    *)
(* hand; its operations are modelled from the contract the specification   *)
(* states for it (section 6).                                              *)
(***************************************************************************)
EXTENDS Integers, Sequences, FiniteSets, TLC

VARIABLES
    datasource,       \* committed rows of table datasource
    datasourceevent,  \* committed rows of table datasourceevent
    nextId,           \* next value of the serial id of datasourceevent
    conn,             \* connection held by the DataSource's dao
    txn,              \* TRUE while that connection has a transaction open
    pending,          \* rows of datasource as seen inside the open transaction
    last              \* the last method call: arguments, dao calls, outcome

vars == <<datasource, datasourceevent, nextId, conn, txn, pending, last>>

(***************************************************************************)
(* Bounds of the model.                                                    *)
(***************************************************************************)
MaxEvents == 2

(***************************************************************************)
(* Values.                                                                 *)
(***************************************************************************)
None == "None"
NoArg == "<omitted>"
NoError == "none"
UniqueViolation == "UniqueViolation"
StatementError == "StatementError"

Schema == "public"
DataSourceTable == "datasource"
DataSourceEventTable == "datasourceevent"

Names == {"fda_events", "aact"}

(***************************************************************************)
(* Rows are functions from column names to values.                         *)
(***************************************************************************)
MkRow(columns, values) ==
    [c \in {columns[i] : i \in DOMAIN columns} |->
        values[CHOOSE i \in DOMAIN columns : columns[i] = c]]

SetCol(r, column, value) ==
    [c \in (DOMAIN r) \cup {column} |-> IF c = column THEN value ELSE r[c]]

Matches(r, where_key, where_value) ==
    where_key \in DOMAIN r /\ r[where_key] = where_value

Call(op, table, schema, where_key, column) ==
    [op |-> op, table |-> table, schema |-> schema,
     where_key |-> where_key, column |-> column]

(***************************************************************************)
(* The data-access object.                                                 *)
(***************************************************************************)
DaoCreate(tbl, table, columns, values, serial) ==
    LET row == IF table = DataSourceEventTable
               THEN MkRow(<<"id">> \o columns, <<serial>> \o values)
               ELSE MkRow(columns, values)
        dup == table = DataSourceTable
               /\ \E r \in tbl : Matches(r, "name", row["name"])
    IN  IF dup THEN [table |-> tbl, err |-> UniqueViolation]
        ELSE [table |-> tbl \cup {row}, err |-> NoError]

DaoRead(tbl, where_key, where_value) ==
    IF where_key = NoArg THEN tbl
    ELSE {r \in tbl : Matches(r, where_key, where_value)}

DaoUpdate(tbl, column, value, where_key, where_value) ==
    {IF Matches(r, where_key, where_value) THEN SetCol(r, column, value) ELSE r
        : r \in tbl}

DaoDelete(tbl, where_key, where_value) ==
    {r \in tbl : ~Matches(r, where_key, where_value)}

\* The transaction lifecycle of a dao, on a session
\* s = [conn, txn, pending, committed].
DaoConnect(s) == [s EXCEPT !.conn = "open"]

DaoBegin(s) ==
    IF s.txn THEN s ELSE [s EXCEPT !.txn = TRUE, !.pending = s.committed]

DaoCommit(s) ==
    IF s.txn THEN [s EXCEPT !.committed = s.pending, !.txn = FALSE, !.pending = {}]
    ELSE s

DaoClose(s) == [s EXCEPT !.conn = "closed", !.txn = FALSE, !.pending = {}]

\* The rows a statement of the session works on, and the session after a
\* statement has left rows tbl.
SessView(s) == IF s.txn THEN s.pending ELSE s.committed

SessWrite(s, tbl) ==
    IF s.txn THEN [s EXCEPT !.pending = tbl] ELSE [s EXCEPT !.committed = tbl]

(***************************************************************************)
(* DataSource.                                                             *)
(***************************************************************************)
CreateColumns ==
    <<"name", "source_type", "version", "webpage",
      "link", "link_type", "frequency", "lifecycle", "creator",
      "has_changed", "source_updated", "created", "created_by",
      "title", "description", "coverage", "maintainer">>

\* link and link_type change places in the list of values.
CreateValuesSwapped(name, a) ==
    <<name, a.source_type, a.version, a.webpage,
      a.link_type, a.link, a.frequency, a.lifecycle, a.creator,
      a.has_changed, a.source_updated, a.created, a.created_by,
      a.title, a.description, a.coverage, a.maintainer>>

CreateValues(name, a) ==
    <<name, a.source_type, a.version, a.webpage,
      a.link, a.link_type, a.frequency, a.lifecycle, a.creator,
      a.has_changed, a.source_updated, a.created, a.created_by,
      a.title, a.description, a.coverage, a.maintainer>>

\* kwargs is a sequence of <<key, value>> pairs, in the order of kwargs.items()
KwKeys(kwargs) == [i \in 1..Len(kwargs) |-> kwargs[i][1]]
KwValues(kwargs) == [i \in 1..Len(kwargs) |-> kwargs[i][2]]

\* The error of the storage layer is caught and dropped.
DataSourceCreateSwallow(s, name, a, kwargs) ==
    LET columns == CreateColumns \o KwKeys(kwargs)
        values == CreateValues(name, a) \o KwValues(kwargs)
        r == DaoCreate(SessView(s), DataSourceTable, columns, values, 0)
    IN  [s |-> SessWrite(s, r.table), err |-> NoError, result |-> {},
         calls |-> <<Call("create", DataSourceTable, Schema, NoArg, NoArg)>>]

DataSourceCreate(s, name, a, kwargs) ==
    LET columns == CreateColumns \o KwKeys(kwargs)
        values == CreateValues(name, a) \o KwValues(kwargs)
        r == DaoCreate(SessView(s), DataSourceTable, columns, values, 0)
    IN  [s |-> SessWrite(s, r.table), err |-> r.err, result |-> {},
         calls |-> <<Call("create", DataSourceTable, Schema, NoArg, NoArg)>>]

DataSourceRead(s, name) ==
    IF name # None
    THEN [s |-> s, err |-> NoError,
          result |-> DaoRead(SessView(s), "name", name),
          calls |-> <<Call("read", DataSourceTable, Schema, "name", NoArg)>>]
    ELSE [s |-> s, err |-> NoError,
          result |-> DaoRead(SessView(s), NoArg, NoArg),
          calls |-> <<Call("read", DataSourceTable, Schema, NoArg, NoArg)>>]

UpdateColumns ==
    <<"uris", "has_changed", "source_updated", "updated", "updated_by">>

\* Column updated is given the value of source_updated.
UpdateValuesCopied(u) ==
    <<u.uris, u.has_changed, u.source_updated, u.source_updated, u.updated_by>>

UpdateValues(u) ==
    <<u.uris, u.has_changed, u.source_updated, u.updated, u.updated_by>>

\* The first n column updates of DataSource.update, in order.
RECURSIVE ColumnUpdates(_, _, _, _)
ColumnUpdates(tbl, name, u, n) ==
    IF n = 0 THEN tbl
    ELSE DaoUpdate(ColumnUpdates(tbl, name, u, n - 1),
                   UpdateColumns[n], UpdateValues(u)[n], "name", name)

UpdateCalls(n) ==
    [i \in 1..n |->
        Call("update", DataSourceTable, Schema, "name", UpdateColumns[i])]

TxnCall(op) == Call(op, NoArg, NoArg, NoArg, NoArg)

\* failAt = 0: every statement succeeds; failAt = k: the k-th column update
\* raises, and the exception leaves update at that point.
DataSourceUpdate(s, name, u, failAt) ==
    LET s0 == DaoBegin(DaoConnect(s))
        done == IF failAt = 0 THEN Len(UpdateColumns) ELSE failAt - 1
        s1 == SessWrite(s0, ColumnUpdates(SessView(s0), name, u, done))
    IN  IF failAt = 0
        THEN [s |-> DaoClose(DaoCommit(s1)), err |-> NoError, result |-> {},
              calls |-> <<TxnCall("connect"), TxnCall("begin")>>
                        \o UpdateCalls(Len(UpdateColumns))
                        \o <<TxnCall("commit"), TxnCall("close")>>]
        ELSE [s |-> s1, err |-> StatementError, result |-> {},
              calls |-> <<TxnCall("connect"), TxnCall("begin")>>
                        \o UpdateCalls(failAt)]

\* The delete carries no where clause.
DataSourceDeleteAll(s, name) ==
    [s |-> SessWrite(s, {}),
     err |-> NoError, result |-> {},
     calls |-> <<Call("delete", DataSourceTable, Schema, NoArg, NoArg)>>]

DataSourceDelete(s, name) ==
    [s |-> SessWrite(s, DaoDelete(SessView(s), "name", name)),
     err |-> NoError, result |-> {},
     calls |-> <<Call("delete", DataSourceTable, Schema, "name", NoArg)>>]

(***************************************************************************)
(* DataSourceEvent.  Its dao never opens a transaction: every statement    *)
(* works on the committed rows.                                            *)
(***************************************************************************)
\* The values are paired with the columns in reverse order.
DataSourceEventCreateReversed(tbl, kwargs, serial) ==
    LET columns == KwKeys(kwargs)
        values == [i \in 1..Len(kwargs) |-> kwargs[Len(kwargs) + 1 - i][2]]
        r == DaoCreate(tbl, DataSourceEventTable, columns, values, serial)
    IN  [table |-> r.table, err |-> r.err, result |-> {},
         calls |-> <<Call("create", DataSourceEventTable, Schema, NoArg, NoArg)>>]

DataSourceEventCreate(tbl, kwargs, serial) ==
    LET columns == KwKeys(kwargs)
        values == KwValues(kwargs)
        r == DaoCreate(tbl, DataSourceEventTable, columns, values, serial)
    IN  [table |-> r.table, err |-> r.err, result |-> {},
         calls |-> <<Call("create", DataSourceEventTable, Schema, NoArg, NoArg)>>]

DataSourceEventRead(tbl, name) ==
    IF name = None
    THEN [table |-> tbl, err |-> NoError,
          result |-> DaoRead(tbl, NoArg, NoArg),
          calls |-> <<Call("read", DataSourceEventTable, NoArg, NoArg, NoArg)>>]
    ELSE [table |-> tbl, err |-> NoError,
          result |-> DaoRead(tbl, "name", name),
          calls |-> <<Call("read", DataSourceEventTable, NoArg, "name", NoArg)>>]

\* The delete keys on the name of the row that has the id.
DataSourceEventDeleteByName(tbl, id) ==
    [table |-> {r \in tbl : \A q \in tbl : q["id"] = id => r["name"] # q["name"]},
     err |-> NoError, result |-> {},
     calls |-> <<Call("delete", DataSourceEventTable, NoArg, "name", NoArg)>>]

DataSourceEventDelete(tbl, id) ==
    [table |-> DaoDelete(tbl, "id", id), err |-> NoError, result |-> {},
     calls |-> <<Call("delete", DataSourceEventTable, NoArg, "id", NoArg)>>]

(***************************************************************************)
(* Inputs.                                                                 *)
(***************************************************************************)
A1 == [source_type |-> "web", version |-> 1, webpage |-> "page1",
       link |-> "link1", link_type |-> "zip", frequency |-> 7,
       lifecycle |-> 30, creator |-> 10, has_changed |-> FALSE,
       source_updated |-> "T0", created |-> "T0c", created_by |-> "etl",
       title |-> None, description |-> None, coverage |-> None,
       maintainer |-> None]

A2 == [source_type |-> "api", version |-> 3, webpage |-> "page2",
       link |-> "link2", link_type |-> "csv", frequency |-> 1,
       lifecycle |-> 90, creator |-> 20, has_changed |-> TRUE,
       source_updated |-> "S0", created |-> "S0c", created_by |-> "admin",
       title |-> "title2", description |-> "desc2", coverage |-> "cov2",
       maintainer |-> "maint2"]

CreateInputs ==
    {[name |-> "fda_events", a |-> A1, kwargs |-> <<>>],
     [name |-> "aact", a |-> A2,
      kwargs |-> << <<"uris", <<"uri0">> >>, <<"license", "bsd">> >>]}

UpdateInputs ==
    {[version |-> 2, uris |-> <<"uri1", "uri2">>, has_changed |-> TRUE,
      source_updated |-> "T1", updated |-> "T1u", updated_by |-> "etl1"]}

EventInputs ==
    {<< <<"name", n>>, <<"event", "changed">> >> : n \in Names}
    \cup
    {<< <<"created", "T9">>, <<"name", n>>, <<"note", "new version">> >>
        : n \in Names}

(***************************************************************************)
(* The state machine: one action per method of the two classes.            *)
(***************************************************************************)
Session ==
    [conn |-> conn, txn |-> txn, pending |-> pending, committed |-> datasource]

View == SessView(Session)

Record(op, name, id, args, pre, r) ==
    [op |-> op, name |-> name, id |-> id, args |-> args, pre |-> pre,
     err |-> r.err, result |-> r.result, calls |-> r.calls]

Install(s) ==
    /\ datasource' = s.committed
    /\ conn' = s.conn
    /\ txn' = s.txn
    /\ pending' = s.pending

Init ==
    /\ datasource = {}
    /\ datasourceevent = {}
    /\ nextId = 1
    /\ conn = "closed"
    /\ txn = FALSE
    /\ pending = {}
    /\ last = [op |-> "init", name |-> None, id |-> 0, args |-> <<>>,
               pre |-> {}, err |-> NoError, result |-> {}, calls |-> <<>>]

DSCreate(in) ==
    LET r == DataSourceCreate(Session, in.name, in.a, in.kwargs)
    IN  /\ Install(r.s)
        /\ last' = Record("ds_create", in.name, 0, in, View, r)
        /\ UNCHANGED <<datasourceevent, nextId>>

DSRead(name) ==
    LET r == DataSourceRead(Session, name)
    IN  /\ Install(r.s)
        /\ last' = Record("ds_read", name, 0, <<>>, View, r)
        /\ UNCHANGED <<datasourceevent, nextId>>

DSUpdate(name, u, failAt) ==
    LET r == DataSourceUpdate(Session, name, u, failAt)
    IN  /\ Install(r.s)
        /\ last' = Record("ds_update", name, failAt, u, View, r)
        /\ UNCHANGED <<datasourceevent, nextId>>

DSDelete(name) ==
    LET r == DataSourceDelete(Session, name)
    IN  /\ Install(r.s)
        /\ last' = Record("ds_delete", name, 0, <<>>, View, r)
        /\ UNCHANGED <<datasourceevent, nextId>>

EvCreate(kwargs) ==
    /\ nextId <= MaxEvents
    /\ LET r == DataSourceEventCreate(datasourceevent, kwargs, nextId)
       IN  /\ datasourceevent' = r.table
           /\ nextId' = nextId + 1
           /\ last' = Record("ev_create", None, nextId, kwargs,
                             datasourceevent, r)
    /\ UNCHANGED <<datasource, conn, txn, pending>>

EvRead(name) ==
    LET r == DataSourceEventRead(datasourceevent, name)
    IN  /\ datasourceevent' = r.table
        /\ last' = Record("ev_read", name, 0, <<>>, datasourceevent, r)
        /\ UNCHANGED <<datasource, conn, txn, pending, nextId>>

EvDelete(id) ==
    LET r == DataSourceEventDelete(datasourceevent, id)
    IN  /\ datasourceevent' = r.table
        /\ last' = Record("ev_delete", None, id, <<>>, datasourceevent, r)
        /\ UNCHANGED <<datasource, conn, txn, pending, nextId>>

\* A DataSource and a DataSourceEvent are separate objects, each with a dao
\* of its own and a table of its own.
Next ==
    \/ \E in \in CreateInputs : DSCreate(in)
    \/ \E name \in Names \cup {None} : DSRead(name)
    \/ \E name \in Names, u \in UpdateInputs,
          failAt \in 0..Len(UpdateColumns) : DSUpdate(name, u, failAt)
    \/ \E name \in Names : DSDelete(name)

Spec == Init /\ [][Next]_vars

NextEvent ==
    \/ \E kwargs \in EventInputs : EvCreate(kwargs)
    \/ \E name \in Names \cup {None} : EvRead(name)
    \/ \E id \in 1..(MaxEvents + 1) : EvDelete(id)

SpecEvent == Init /\ [][NextEvent]_vars

(***************************************************************************)
(* What the claims speak of.                                               *)
(***************************************************************************)
\* What DataSource.read(name) returns in the current state.
ReadNow(name) == DataSourceRead(Session, name).result

\* The rows named name before the last call.
PreRows(name) == {r \in last.pre : r["name"] = name}

\* Row r with the five columns of an update holding the values of u.
UpdatedRow(r, u) ==
    [c \in (DOMAIN r) \cup
            {"uris", "has_changed", "source_updated", "updated", "updated_by"} |->
        CASE c = "uris" -> u.uris
          [] c = "has_changed" -> u.has_changed
          [] c = "source_updated" -> u.source_updated
          [] c = "updated" -> u.updated
          [] c = "updated_by" -> u.updated_by
          [] OTHER -> r[c]]

\* The row a create with input in is to write.
FixedColumns(in) ==
    [name |-> in.name, source_type |-> in.a.source_type,
     version |-> in.a.version, webpage |-> in.a.webpage, link |-> in.a.link,
     link_type |-> in.a.link_type, frequency |-> in.a.frequency,
     lifecycle |-> in.a.lifecycle, creator |-> in.a.creator,
     has_changed |-> in.a.has_changed, source_updated |-> in.a.source_updated,
     created |-> in.a.created, created_by |-> in.a.created_by,
     title |-> in.a.title, description |-> in.a.description,
     coverage |-> in.a.coverage, maintainer |-> in.a.maintainer]

KwOf(kwargs, k) ==
    kwargs[CHOOSE i \in 1..Len(kwargs) : kwargs[i][1] = k][2]

KeySet(kwargs) == {kwargs[i][1] : i \in 1..Len(kwargs)}

ExpectedRow(in) ==
    [c \in (DOMAIN FixedColumns(in)) \cup KeySet(in.kwargs) |->
        IF c \in KeySet(in.kwargs) THEN KwOf(in.kwargs, c)
        ELSE FixedColumns(in)[c]]

Statements == {"create", "read", "update", "delete"}

UniqueNames(tbl) == \A r, q \in tbl : r["name"] = q["name"] => r = q

(***************************************************************************)
(* C1: a DataSource.update that completes on an existing row leaves that   *)
(* row with uris, has_changed, source_updated, updated and updated_by all  *)
(* holding the new values, every other column of the row as it was, and    *)
(* every row of another name as it was.                                    *)
(***************************************************************************)
C1_UpdateWritesFiveColumnsOnly ==
    (last.op = "ds_update" /\ last.err = NoError) =>
        /\ ReadNow(last.name)
              = {UpdatedRow(r, last.args) : r \in PreRows(last.name)}
        /\ \A n \in Names \ {last.name} : ReadNow(n) = PreRows(n)
        /\ ReadNow(None) \ ReadNow(last.name)
              = last.pre \ PreRows(last.name)

C1_Witness ==
    /\ last.op = "ds_update" /\ last.err = NoError
    /\ \E r \in PreRows(last.name) :
          /\ "uris" \in DOMAIN r /\ r["uris"] # last.args.uris
          /\ r["source_updated"] # last.args.source_updated
          /\ "updated_by" \notin DOMAIN r
          /\ "license" \in DOMAIN r
    /\ \E q \in last.pre : q["name"] # last.name

(***************************************************************************)
(* C2: after a DataSource.update with version v completes on an existing   *)
(* row, the row read back has version v.                                   *)
(***************************************************************************)
C2_UpdateWritesVersion ==
    (last.op = "ds_update" /\ last.err = NoError) =>
        \A r \in ReadNow(last.name) : r["version"] = last.args.version

(***************************************************************************)
(* C3: after a DataSource.update that failed at one of its column writes,  *)
(* a read shows the row either with none of the changes of the update or   *)
(* with all of them.                                                       *)
(***************************************************************************)
C3_NoPartialUpdate ==
    (last.op = "ds_update" /\ last.err # NoError) =>
        \/ ReadNow(last.name) = PreRows(last.name)
        \/ ReadNow(last.name)
              = {UpdatedRow(r, last.args) : r \in PreRows(last.name)}

(***************************************************************************)
(* C4: a DataSource.create under a name that has no row succeeds, and a    *)
(* read of that name then returns exactly one row, whose 17 fixed columns  *)
(* and extra keyword columns hold the values passed to create.             *)
(***************************************************************************)
C4_CreateThenRead ==
    (last.op = "ds_create" /\ PreRows(last.name) = {}) =>
        /\ last.err = NoError
        /\ ReadNow(last.name) = {ExpectedRow(last.args)}

C4_Witness ==
    /\ last.op = "ds_create" /\ PreRows(last.name) = {}
    /\ last.args.kwargs # <<>>
    /\ last.pre # {}
    /\ Cardinality(ReadNow(last.name)) = 1

(***************************************************************************)
(* C5: for a name that has no row, DataSource.read returns no rows and     *)
(* DataSource.delete removes no row; neither raises, and the rows of the   *)
(* table are as before.                                                    *)
(***************************************************************************)
C5_AbsentNameReadDelete ==
    (/\ last.op \in {"ds_read", "ds_delete"}
     /\ last.name # None
     /\ PreRows(last.name) = {}) =>
        /\ last.err = NoError
        /\ last.result = {}
        /\ ReadNow(None) = last.pre

C5_Witness ==
    /\ last.op = "ds_delete"
    /\ PreRows(last.name) = {}
    /\ last.pre # {}

(***************************************************************************)
(* C6: the datasource table never holds two rows of one name; a create     *)
(* under a name that has a row fails with the constraint error of the      *)
(* storage layer and leaves the rows as they were.                         *)
(***************************************************************************)
C6_NameIsUnique ==
    /\ UniqueNames(datasource)
    /\ UniqueNames(View)
    /\ (last.op = "ds_create" /\ PreRows(last.name) # {}) =>
          (last.err = UniqueViolation /\ ReadNow(None) = last.pre)

C6_Witness ==
    /\ last.op = "ds_create"
    /\ PreRows(last.name) # {}
    /\ Cardinality(View) = Cardinality(Names)

C8_EventsAppendOnly ==
    /\ \A r \in datasourceevent :
          \/ r \in last.pre
          \/ /\ last.op = "ev_create"
             /\ r["id"] = last.id
             /\ \A k \in KeySet(last.args) : r[k] = KwOf(last.args, k)
    /\ last.op = "ev_delete" =>
          datasourceevent = {r \in last.pre : r["id"] # last.id}
    /\ last.op \in {"ev_read", "ev_create"} => last.pre \subseteq datasourceevent

C8_Witness ==
    /\ last.op = "ev_delete"
    /\ \E r \in last.pre : r["id"] = last.id
    /\ \E r \in datasourceevent, q \in last.pre :
          r["name"] = q["name"] /\ q["id"] = last.id

(***************************************************************************)
(* C9: every statement a method issues on its dao names schema "public"    *)
(* and the table of the method's own class.                                *)
(***************************************************************************)
C9_SchemaAndTableNamed ==
    \A i \in DOMAIN last.calls :
        last.calls[i].op \in Statements =>
            /\ last.calls[i].schema = Schema
            /\ last.calls[i].table
                 = IF last.op \in {"ev_create", "ev_read", "ev_delete"}
                   THEN DataSourceEventTable ELSE DataSourceTable

(***************************************************************************)
(* C10: when DataSource.update returns control, by return or by exception, *)
(* its transaction is ended and its connection is closed.                  *)
(***************************************************************************)
C10_UpdateReleases ==
    last.op = "ds_update" =>
        /\ conn = "closed"
        /\ ~txn
        /\ last.calls[Len(last.calls)].op = "close"
        /\ \E i \in DOMAIN last.calls :
              last.calls[i].op \in {"commit", "rollback"}

====
